---- MODULE Spec2Model ----
(***************************************************************************)
(* Model of the WebRTC signaling relay, src/signaling/index.ts.             *)
(*                                                                         *)
(* The relay is one Bun.serve process.  Its handlers (fetch, open,         *)
(* message, close, drain) contain no await, so each one runs to completion *)
(* on the JavaScript event loop: one action per handler.                   *)
(*                                                                         *)
(* rooms is the module-level Map<string, Map<string, Client>>.  A JS Map   *)
(* iterates in insertion order, so a Map is modelled as the sequence of    *)
(* its entries.  Strings that the code takes apart (the request path) are  *)
(* sequences of characters.  A client identifier is the n-th value drawn   *)
(* from crypto.randomUUID(); an absent / falsy envelope field is Absent.   *)
(***************************************************************************)
EXTENDS Integers, Sequences, FiniteSets, TLC

\* ---- bounds ----------------------------------------------------------
NumConns == 3
MaxCloses == 2
MaxMsgs == 1
FifoMsgs == 2
MaxChanges == 3      \* change events the file watcher reports
MaxTime == 1500      \* the clock of the watcher stops here (ms)
TickMs == 250        \* the longest step of that clock (ms)
NumInstances == 2    \* options.numInstances of the modelled run

Conns == 1..NumConns
ClientIds == 1..NumConns

\* ---- values -----------------------------------------------------------
Absent == 0

DefaultRoom == <<"d", "e", "f", "a", "u", "l", "t">>

\* url.pathname of the requests the model issues: "/", "/a", "/default"
Pathnames == { <<"/">>, <<"/", "a">>, <<"/">> \o DefaultRoom }

Types == {"offer", "answer", "ice-candidate", "broadcast", "bogus"}
Payloads == {"sdp", "ice"}

\* A text frame that JSON.parse rejects.
Garbage == [json |-> FALSE, type |-> "", sender |-> Absent, target |-> Absent,
            payload |-> ""]

Directed == {"offer", "answer", "ice-candidate"}

\* The raw inbound frames a peer may transmit: text that is not JSON, or a
\* JSON object of the wire schema with any sender (present, absent, its own
\* or another session's); target is carried by the directed types only.
Frames ==
  [json : {TRUE}, type : Directed, sender : ClientIds \cup {Absent},
   target : ClientIds \cup {Absent}, payload : Payloads]
  \cup
  [json : {TRUE}, type : Types \ Directed, sender : ClientIds \cup {Absent},
   target : {Absent}, payload : Payloads]
  \cup {Garbage}

\* Server-synthesised control frames (the timestamp value is not modelled).
Connected(clientId) == [type |-> "connected", clientId |-> clientId]
PeerJoined(clientId) == [type |-> "peer-joined", peerId |-> clientId]
PeerLeft(clientId) == [type |-> "peer-left", peerId |-> clientId]

NoMsg == [type |-> "none"]

\* ---- values of sync-swarm ----------------------------------------------
\* let syncTimeout: NodeJS.Timeout | null = null
Null == 0

SYNC_DEBOUNCE_MS == 500

\* fs.watch reports a change without a filename
NoFilename == <<>>

\* filenames the watcher reports: "a.ts", "a.log", "dist/a", "distal.ts"
Filenames ==
  { <<"a", ".", "t", "s">>,
    <<"a", ".", "l", "o", "g">>,
    <<"d", "i", "s", "t", "/", "a">>,
    <<"d", "i", "s", "t", "a", "l", ".", "t", "s">>,
    NoFilename }

ignoredExtensions ==
  { <<".", "l", "o", "g">>, <<".", "t", "m", "p">>, <<".", "s", "w", "p">>,
    <<".", "D", "S", "_", "S", "t", "o", "r", "e">> }

\* instance-0 .. instance-(numInstances - 1)
Instances == 0..(NumInstances - 1)

HostOS == {"macOS", "Windows"}

\* no call of syncToInstances is under way / its summary is not printed yet
NoOptions == [hostOS |-> "none", numInstances |-> 0]
NoSummary == [successful |-> -1, failed |-> -1]

\* exit codes of the copy process: 0, 1 (robocopy: files copied), 23 (rsync:
\* partial transfer); NoCode is the null code of a process ended by a signal
Codes == {0, 1, 23}
NoCode == -1
NoSignal == "null"

\* an instance for which the loop has not created a process
NotStarted ==
  [st |-> "none", killed |-> FALSE, code |-> NoCode, signal |-> NoSignal,
   closeEv |-> "none", spawnTimeout |-> "none", timer |-> "none",
   result |-> "pending", resolves |-> 0, timedOut |-> "no"]

ignoredDirs ==
  { <<"n", "o", "d", "e", "_", "m", "o", "d", "u", "l", "e", "s">>,
    <<".", "g", "i", "t">>, <<".", "v", "i", "t", "e">>, <<"d", "i", "s", "t">> }

VARIABLES
  rooms,    \* the registry: sequence of [id, clients], clients a sequence of Client
  conn,     \* per connection: transport state and ws.data.roomId
  nextId,   \* number of identifiers drawn so far, plus one
  closes,   \* close events delivered per connection
  msgs,     \* message events handled so far
  ev,       \* the event handled last: its input, the registry before it, its sends
  issued,   \* the identifiers assigned by open so far, in order
  wire,     \* per connection: the first frame written to it, and how many
            \* "connected" frames were written to it
  log,      \* per connection: producer and arrival number of each routed frame
            \* written to it, in the order of the writes (kept by SpecFifo only)
  down,     \* the connections whose transport is gone while their close event
            \* is still to come: a ws.send to them fails (returns 0)
  notes,    \* per connection and client identifier: the lifecycle frames about
            \* that identifier written to the connection, "J" for peer-joined
            \* and "L" for peer-left, in the order of the writes (kept by
            \* SpecNotes only)
  now,         \* sync-swarm: the clock of the event loop, in ms
  syncTimeout, \* sync-swarm: the module-level timer handle, or Null
  timers,      \* sync-swarm: the pending timers of setTimeout, [id, due]
  changes,     \* sync-swarm: the times at which debouncedSync was called
  syncCalls,   \* sync-swarm: the times at which a timer called syncToInstances
  options,     \* sync-swarm: the options of the syncToInstances call under way
  syncProcess, \* sync-swarm: per instance, the copy process, its events and
               \* timers, and the promise of its result
  summary      \* sync-swarm: the counts printed once Promise.all has settled

\* the state of the signaling relay, src/signaling/index.ts
relay == <<rooms, conn, nextId, closes, msgs, ev, issued, wire, log, down, notes>>

\* the state of the file-sync watcher, src/scripts/sync-swarm.ts
watch == <<now, syncTimeout, timers, changes, syncCalls>>
copies == <<options, syncProcess, summary>>
swarm == <<watch, copies>>

vars == <<relay, swarm>>

\* ---- pure helpers -----------------------------------------------------

\* String.prototype.slice(1)
slice1(s) == IF Len(s) <= 1 THEN <<>> ELSE SubSeq(s, 2, Len(s))

\* room identifier without the || "default" fallback
roomIdOf_noFallback(pathname) == slice1(pathname)

\* url.pathname.slice(1) || "default"
roomIdOf(pathname) ==
  IF slice1(pathname) = <<>> THEN DefaultRoom ELSE slice1(pathname)

RoomIds == { roomIdOf(p) : p \in Pathnames }

\* Map.prototype.has / index of a key in the entry sequence
IndexOf(m, k) ==
  IF \E i \in 1..Len(m) : m[i].id = k
    THEN CHOOSE i \in 1..Len(m) : m[i].id = k /\ \A j \in 1..(i - 1) : m[j].id # k
    ELSE 0

Has(m, k) == IndexOf(m, k) # 0

\* Map.prototype.delete
Remove(m, k) == SelectSeq(m, LAMBDA e : e.id # k)

\* an identifier source that repeats: the same value after the first draw
randomUUID_repeat(n) == IF n > 1 THEN 2 ELSE 1

\* crypto.randomUUID(): the n-th identifier drawn
randomUUID(n) == n

\* getOrCreateRoom without the rooms.has test
getOrCreateRoom_dup(rs, roomId) ==
  Append(rs, [id |-> roomId, clients |-> <<>>])

\* rooms after getOrCreateRoom(roomId)
getOrCreateRoom(rs, roomId) ==
  IF ~Has(rs, roomId)
    THEN Append(rs, [id |-> roomId, clients |-> <<>>])
    ELSE rs

\* room.set that puts a new client ahead of the clients already in the room
roomSet_front(rs, roomId, clientId, ws) ==
  LET i == IndexOf(rs, roomId)
      c == [id |-> clientId, ws |-> ws, roomId |-> roomId]
  IN [rs EXCEPT ![i].clients = <<c>> \o Remove(@, clientId)]

\* room.set(clientId, {ws, id, roomId}) on the room with key roomId
roomSet(rs, roomId, clientId, ws) ==
  LET i == IndexOf(rs, roomId)
      cl == rs[i].clients
      c == [id |-> clientId, ws |-> ws, roomId |-> roomId]
  IN [rs EXCEPT ![i].clients =
        IF Has(cl, clientId)
          THEN [cl EXCEPT ![IndexOf(cl, clientId)] = c]
          ELSE Append(cl, c)]

\* room.delete that removes nothing
roomDelete_noop(rs, roomId, clientId) == rs

\* room.delete(clientId) on the room with key roomId
roomDelete(rs, roomId, clientId) ==
  [rs EXCEPT ![IndexOf(rs, roomId)].clients = Remove(@, clientId)]

\* forEach that ends at the first write that fails
RECURSIVE SendsTo_stopOnFail(_, _, _)
SendsTo_stopOnFail(clients, senderId, message) ==
  IF clients = <<>> THEN <<>>
  ELSE IF Head(clients).id = senderId
    THEN SendsTo_stopOnFail(Tail(clients), senderId, message)
  ELSE IF Head(clients).ws \in down
    THEN << [to |-> Head(clients).ws, msg |-> message] >>
  ELSE << [to |-> Head(clients).ws, msg |-> message] >>
       \o SendsTo_stopOnFail(Tail(clients), senderId, message)

\* room.forEach of broadcastToRoom: the ws.send calls, in iteration order; the
\* value ws.send returns is not looked at
RECURSIVE SendsTo(_, _, _)
SendsTo(clients, senderId, message) ==
  IF clients = <<>> THEN <<>>
  ELSE (IF Head(clients).id # senderId
          THEN << [to |-> Head(clients).ws, msg |-> message] >>
          ELSE <<>>)
       \o SendsTo(Tail(clients), senderId, message)

\* broadcastToRoom without the id !== senderId test
broadcastToRoom_echo(rs, roomId, senderId, message) ==
  IF ~Has(rs, roomId) THEN <<>>
  ELSE SendsTo(rs[IndexOf(rs, roomId)].clients, Absent, message)

\* the ws.send calls of broadcastToRoom(roomId, senderId, message), in order
broadcastToRoom(rs, roomId, senderId, message) ==
  IF ~Has(rs, roomId) THEN <<>>
  ELSE SendsTo(rs[IndexOf(rs, roomId)].clients, senderId, message)

\* ws.send: what the given calls, in order, add to the per-connection record
RECURSIVE Deliver(_, _)
Deliver(w, sends) ==
  IF sends = <<>> THEN w
  ELSE LET d == Head(sends).to
           f == Head(sends).msg
       IN Deliver([w EXCEPT
                     ![d].first = IF @ = NoMsg THEN f ELSE @,
                     ![d].connected = IF f.type = "connected" THEN @ + 1 ELSE @],
                  Tail(sends))

\* ws.send of lifecycle frames: what the given calls, in order, add to the
\* per-connection record of peer-joined and peer-left frames
RECURSIVE Noted(_, _)
Noted(n, sends) ==
  IF sends = <<>> THEN n
  ELSE LET d == Head(sends).to
           f == Head(sends).msg
       IN Noted(IF f.type = "peer-joined"
                  THEN [n EXCEPT ![d][f.peerId] = Append(@, "J")]
                ELSE IF f.type = "peer-left"
                  THEN [n EXCEPT ![d][f.peerId] = Append(@, "L")]
                ELSE n,
                Tail(sends))

\* The record of one handled event: the handler, the connection it ran for,
\* the inbound frame or HTTP response, the registry before it ran, and the
\* ws.send calls it made, in order.
Event(kind, ws, msg, before, sent) ==
  [kind |-> kind, ws |-> ws, msg |-> msg, before |-> before, sent |-> sent]

\* ---- initial state ------------------------------------------------------
Init ==
  /\ rooms = <<>>
  /\ conn = [c \in Conns |-> [st |-> "idle", roomId |-> <<>>]]
  /\ nextId = 1
  /\ closes = [c \in Conns |-> 0]
  /\ msgs = 0
  /\ ev = Event("init", 0, NoMsg, <<>>, <<>>)
  /\ issued = <<>>
  /\ wire = [c \in Conns |-> [first |-> NoMsg, connected |-> 0]]
  /\ log = [c \in Conns |-> <<>>]
  /\ down = {}
  /\ notes = [c \in Conns |-> [x \in ClientIds |-> <<>>]]
  /\ now = 0
  /\ syncTimeout = Null
  /\ timers = {}
  /\ changes = <<>>
  /\ syncCalls = <<>>
  /\ options = NoOptions
  /\ syncProcess = [i \in Instances |-> NotStarted]
  /\ summary = NoSummary

\* ---- fetch ------------------------------------------------------------

\* fetch, upgrade succeeds: connection c is the next WebSocket, data = {roomId}
fetchUpgrade(c, pathname) ==
  /\ conn[c].st = "idle"
  /\ \A d \in Conns : d < c => conn[d].st # "idle"
  /\ conn' = [conn EXCEPT ![c] = [st |-> "upgraded", roomId |-> roomIdOf(pathname)]]
  /\ ev' = Event("upgrade", c, [type |-> "request", pathname |-> pathname], rooms, <<>>)
  /\ UNCHANGED <<rooms, nextId, closes, msgs, issued, wire, log, down, notes, swarm>>

\* status page that counts the sessions of the registry, not its rooms
activeRooms_sessions(rs) ==
  Cardinality(UNION { { <<i, j>> : j \in 1..Len(rs[i].clients) } : i \in 1..Len(rs) })

\* rooms.size
activeRooms(rs) == Len(rs)

\* fetch, not a WebSocket request: the status page
fetchStatus(pathname) ==
  /\ ev' = Event("status", 0,
                 [type |-> "response", status |-> 200,
                  activeRooms |-> activeRooms(rooms)],
                 rooms, <<>>)
  /\ UNCHANGED <<rooms, conn, nextId, closes, msgs, issued, wire, log, down, notes, swarm>>

\* ---- websocket.open -----------------------------------------------------

\* join that ignores ws.data.roomId and uses the fallback room
join_default(rs, roomId, clientId, ws) ==
  roomSet(getOrCreateRoom(rs, DefaultRoom), DefaultRoom, clientId, ws)

\* "Add client to the room": getOrCreateRoom(roomId), then room.set(clientId, ...)
join(rs, roomId, clientId, ws) ==
  roomSet(getOrCreateRoom(rs, roomId), roomId, clientId, ws)

\* open that greets after notifying, and greets every member of the room
openSends_greetAll(rs, roomId, clientId, ws) ==
  broadcastToRoom(rs, roomId, clientId, PeerJoined(clientId))
  \o broadcastToRoom(rs, roomId, Absent, Connected(clientId))

\* open that also tells the joiner who is in the room already
openSends_roster(rs, roomId, clientId, ws) ==
  << [to |-> ws, msg |-> Connected(clientId)] >>
  \o [k \in 1..Len(SelectSeq(rs[IndexOf(rs, roomId)].clients, LAMBDA x : x.id # clientId)) |->
       [to |-> ws,
        msg |-> PeerJoined(SelectSeq(rs[IndexOf(rs, roomId)].clients,
                                     LAMBDA x : x.id # clientId)[k].id)]]
  \o broadcastToRoom(rs, roomId, clientId, PeerJoined(clientId))

\* the ws.send calls of the open handler, rs being the registry after the join:
\* "Send the client their ID", then "Notify others in the room"
openSends(rs, roomId, clientId, ws) ==
  << [to |-> ws, msg |-> Connected(clientId)] >>
  \o broadcastToRoom(rs, roomId, clientId, PeerJoined(clientId))

\* open whose join is deferred past the end of the handler
open_deferred(c) ==
  /\ conn[c].st = "upgraded"
  /\ LET clientId == randomUUID(nextId)
         sent == << [to |-> c, msg |-> Connected(clientId)] >>
     IN /\ ev' = Event("open", c, NoMsg, rooms, sent)
        /\ wire' = Deliver(wire, sent)
        /\ issued' = Append(issued, clientId)
  /\ nextId' = nextId + 1
  /\ conn' = [conn EXCEPT ![c].st = "open"]
  /\ UNCHANGED <<rooms, closes, msgs, log, down, notes, swarm>>

open(c) ==
  /\ conn[c].st = "upgraded"
  /\ LET clientId == randomUUID(nextId)
         roomId == conn[c].roomId
         rs == join(rooms, roomId, clientId, c)
         sent == openSends(rs, roomId, clientId, c)
     IN /\ rooms' = rs
        /\ ev' = Event("open", c, NoMsg, rooms, sent)
        /\ wire' = Deliver(wire, sent)
        /\ issued' = Append(issued, clientId)
  /\ nextId' = nextId + 1
  /\ conn' = [conn EXCEPT ![c].st = "open"]
  /\ UNCHANGED <<closes, msgs, log, down, notes, swarm>>

\* ---- websocket.message --------------------------------------------------

\* room lookup that keeps the room visited last when no room has the sender
findClientRoom_last(rs, sender) ==
  IF \E i \in 1..Len(rs) : Has(rs[i].clients, sender)
    THEN CHOOSE i \in 1..Len(rs) :
           /\ Has(rs[i].clients, sender)
           /\ \A j \in 1..(i - 1) : ~Has(rs[j].clients, sender)
    ELSE Len(rs)

\* index in rooms of the first room that has the sender, 0 when there is none
\* (the for-of loop over rooms.entries() with break)
findClientRoom(rs, sender) ==
  IF \E i \in 1..Len(rs) : Has(rs[i].clients, sender)
    THEN CHOOSE i \in 1..Len(rs) :
           /\ Has(rs[i].clients, sender)
           /\ \A j \in 1..(i - 1) : ~Has(rs[j].clients, sender)
    ELSE 0

\* directed case that forwards to the whole room once the target is known
directedSends_fanout(clientRoom, target, message) ==
  IF target # Absent /\ Has(clientRoom, target)
    THEN SendsTo(clientRoom, Absent, message)
    ELSE <<>>

\* directed case that answers a routing miss with a control frame to the sender
directedSends_reply(clientRoom, target, message) ==
  IF target # Absent /\ Has(clientRoom, target)
    THEN << [to |-> clientRoom[IndexOf(clientRoom, target)].ws, msg |-> message] >>
    ELSE << [to |-> clientRoom[IndexOf(clientRoom, message.sender)].ws,
             msg |-> [type |-> "target-not-found"]] >>

\* directed case that forwards a re-encoded envelope instead of the raw frame
directedSends_reencode(clientRoom, target, message) ==
  IF target # Absent /\ Has(clientRoom, target)
    THEN << [to |-> clientRoom[IndexOf(clientRoom, target)].ws,
             msg |-> [type |-> message.type, target |-> message.target,
                      sender |-> message.sender]] >>
    ELSE <<>>

\* directed case that refuses a frame addressed to its own sender
directedSends_noSelf(clientRoom, target, message) ==
  IF target # Absent /\ target # message.sender /\ Has(clientRoom, target)
    THEN << [to |-> clientRoom[IndexOf(clientRoom, target)].ws, msg |-> message] >>
    ELSE <<>>

\* case "offer" / "answer" / "ice-candidate"
directedSends(clientRoom, target, message) ==
  IF target # Absent /\ Has(clientRoom, target)
    THEN << [to |-> clientRoom[IndexOf(clientRoom, target)].ws, msg |-> message] >>
    ELSE <<>>

\* message handler whose default case falls into the broadcast case
route_defaultBroadcast(rs, m) ==
  IF ~m.json THEN <<>>
  ELSE IF m.sender = Absent THEN <<>>
  ELSE LET i == findClientRoom(rs, m.sender) IN
    IF i = 0 THEN <<>>
    ELSE IF m.type \in {"offer", "answer", "ice-candidate"}
      THEN directedSends(rs[i].clients, m.target, m)
    ELSE broadcastToRoom(rs, rs[i].id, m.sender, m)

\* the ws.send calls of the message handler for raw frame m
route(rs, m) ==
  IF ~m.json THEN <<>>                       \* JSON.parse throws, caught
  ELSE IF m.sender = Absent THEN <<>>        \* "Message missing sender ID"
  ELSE LET i == findClientRoom(rs, m.sender) IN
    IF i = 0 THEN <<>>                       \* "not found in any room"
    ELSE IF m.type \in {"offer", "answer", "ice-candidate"}
      THEN directedSends(rs[i].clients, m.target, m)
    ELSE IF m.type = "broadcast"
      THEN broadcastToRoom(rs, rs[i].id, m.sender, m)
    ELSE <<>>                                \* "Unknown message type"

\* message handler that answers a frame it cannot parse or that has no sender
message_replyOnError(c, m) ==
  /\ conn[c].st = "open"
  /\ msgs < MaxMsgs
  /\ msgs' = msgs + 1
  /\ LET sent == IF ~m.json \/ m.sender = Absent
                   THEN << [to |-> c, msg |-> [type |-> "error"]] >>
                   ELSE route(rooms, m)
     IN /\ ev' = Event("message", c, m, rooms, sent)
        /\ wire' = Deliver(wire, sent)
  /\ UNCHANGED <<rooms, conn, nextId, closes, issued, log, down, notes, swarm>>

\* message handler that deletes the room of a peer whose frame it cannot parse
message_kickMalformed(c, m) ==
  /\ conn[c].st = "open"
  /\ msgs < MaxMsgs
  /\ msgs' = msgs + 1
  /\ ev' = Event("message", c, m, rooms, route(rooms, m))
  /\ wire' = Deliver(wire, route(rooms, m))
  /\ rooms' = IF m.json THEN rooms ELSE Remove(rooms, conn[c].roomId)
  /\ UNCHANGED <<conn, nextId, closes, issued, log, down, notes, swarm>>

message(c, m) ==
  /\ conn[c].st = "open"
  /\ msgs < MaxMsgs
  /\ msgs' = msgs + 1
  /\ ev' = Event("message", c, m, rooms, route(rooms, m))
  /\ wire' = Deliver(wire, route(rooms, m))
  /\ UNCHANGED <<rooms, conn, nextId, closes, issued, log, down, notes, swarm>>

\* The frames a peer that follows the wire schema transmits to be routed:
\* it names itself, with the clientId of the "connected" frame it was sent.
RoutedFrames(c) ==
  { m \in Frames :
      /\ m.json
      /\ m.type \in Directed \cup {"broadcast"}
      /\ m.type \in Directed => m.target # Absent
      /\ m.payload = "sdp"
      /\ wire[c].first.type = "connected"
      /\ m.sender = wire[c].first.clientId }

\* ws.send writing the newest frame ahead of the frames already written
Written_ahead(l, sends, c, n) ==
  [d \in Conns |->
     SelectSeq([k \in 1..Len(sends) |-> [to |-> sends[k].to, from |-> c, n |-> n]],
               LAMBDA e : e.to = d)
     \o l[d]]

\* ws.send: the given calls, made while handling the n-th frame (arrived on
\* connection c), append to the stream of each connection written to
Written(l, sends, c, n) ==
  [d \in Conns |->
     l[d] \o
     SelectSeq([k \in 1..Len(sends) |-> [to |-> sends[k].to, from |-> c, n |-> n]],
               LAMBDA e : e.to = d)]

\* the message handler, keeping the record of what it wrote to whom; the
\* frames of one connection are handled in the order the peer transmitted them
messageLogged(c, m) ==
  /\ conn[c].st = "open"
  /\ msgs < FifoMsgs
  /\ msgs' = msgs + 1
  /\ ev' = Event("message", c, m, rooms, route(rooms, m))
  /\ wire' = Deliver(wire, route(rooms, m))
  /\ log' = Written(log, route(rooms, m), c, msgs + 1)
  /\ UNCHANGED <<rooms, conn, nextId, closes, issued, down, notes, swarm>>

\* ---- websocket.close ----------------------------------------------------

\* findByWs whose comparison accepts the first client it visits
findByWs_first(rs, ws) ==
  IF \E i \in 1..Len(rs) : Len(rs[i].clients) > 0
    THEN <<CHOOSE i \in 1..Len(rs) :
             /\ Len(rs[i].clients) > 0
             /\ \A l \in 1..(i - 1) : Len(rs[l].clients) = 0, 1>>
    ELSE <<0, 0>>

\* <<i, j>>: first room i and first client j in it with client.ws === ws;
\* <<0, 0>> when the nested loops finish without a match
findByWs(rs, ws) ==
  LET hit(i) == \E j \in 1..Len(rs[i].clients) : rs[i].clients[j].ws = ws
  IN IF \E i \in 1..Len(rs) : hit(i)
       THEN LET i == CHOOSE k \in 1..Len(rs) : hit(k) /\ \A l \in 1..(k - 1) : ~hit(l)
                j == CHOOSE k \in 1..Len(rs[i].clients) :
                       /\ rs[i].clients[k].ws = ws
                       /\ \A l \in 1..(k - 1) : rs[i].clients[l].ws # ws
            IN <<i, j>>
       ELSE <<0, 0>>

\* cleanup that never deletes the room
cleanUp_never(rs, roomId) == rs

\* cleanup that tests room.size <= 1
cleanUp_offByOne(rs, roomId) ==
  IF Len(rs[IndexOf(rs, roomId)].clients) <= 1 THEN Remove(rs, roomId) ELSE rs

\* "Clean up empty rooms": rooms.delete(roomId) when room.size === 0
cleanUp(rs, roomId) ==
  IF Len(rs[IndexOf(rs, roomId)].clients) = 0 THEN Remove(rs, roomId) ELSE rs

\* rooms after the close handler ran for ws
closeRooms(rs, ws) ==
  LET f == findByWs(rs, ws) IN
    IF f[1] = 0 THEN rs
    ELSE cleanUp(roomDelete(rs, rs[f[1]].id, rs[f[1]].clients[f[2]].id), rs[f[1]].id)

\* close handler that forgets the peer-left notification
closeSends_silent(rs, ws) == <<>>

\* close handler that notifies the room of ws.data.roomId when it finds no session
closeSends_blind(rs, ws) ==
  LET f == findByWs(rs, ws) IN
    IF f[1] = 0
      THEN broadcastToRoom(rs, conn[ws].roomId, Absent, PeerLeft(Absent))
    ELSE LET roomId == rs[f[1]].id
             clientId == rs[f[1]].clients[f[2]].id
         IN broadcastToRoom(roomDelete(rs, roomId, clientId), roomId, clientId,
                            PeerLeft(clientId))

\* the ws.send calls of the close handler for ws
closeSends(rs, ws) ==
  LET f == findByWs(rs, ws) IN
    IF f[1] = 0 THEN <<>>
    ELSE LET roomId == rs[f[1]].id
             clientId == rs[f[1]].clients[f[2]].id
         IN broadcastToRoom(roomDelete(rs, roomId, clientId), roomId, clientId,
                            PeerLeft(clientId))

close(c) ==
  /\ conn[c].st \in {"open", "closed"}
  /\ closes[c] < MaxCloses
  /\ closes' = [closes EXCEPT ![c] = @ + 1]
  /\ rooms' = closeRooms(rooms, c)
  /\ ev' = Event("close", c, NoMsg, rooms, closeSends(rooms, c))
  /\ wire' = Deliver(wire, closeSends(rooms, c))
  /\ conn' = [conn EXCEPT ![c].st = "closed"]
  /\ down' = down \ {c}
  /\ UNCHANGED <<nextId, msgs, issued, log, notes, swarm>>

\* the open handler, keeping the record of the lifecycle frames it wrote
openNoted(c) ==
  /\ conn[c].st = "upgraded"
  /\ LET clientId == randomUUID(nextId)
         roomId == conn[c].roomId
         rs == join(rooms, roomId, clientId, c)
         sent == openSends(rs, roomId, clientId, c)
     IN /\ rooms' = rs
        /\ ev' = Event("open", c, NoMsg, rooms, sent)
        /\ wire' = Deliver(wire, sent)
        /\ notes' = Noted(notes, sent)
        /\ issued' = Append(issued, clientId)
  /\ nextId' = nextId + 1
  /\ conn' = [conn EXCEPT ![c].st = "open"]
  /\ UNCHANGED <<closes, msgs, log, down, swarm>>

\* the close handler, keeping the record of the lifecycle frames it wrote
closeNoted(c) ==
  /\ conn[c].st \in {"open", "closed"}
  /\ closes[c] < MaxCloses
  /\ closes' = [closes EXCEPT ![c] = @ + 1]
  /\ rooms' = closeRooms(rooms, c)
  /\ ev' = Event("close", c, NoMsg, rooms, closeSends(rooms, c))
  /\ wire' = Deliver(wire, closeSends(rooms, c))
  /\ notes' = Noted(notes, closeSends(rooms, c))
  /\ conn' = [conn EXCEPT ![c].st = "closed"]
  /\ down' = down \ {c}
  /\ UNCHANGED <<nextId, msgs, issued, log, swarm>>

\* ---- transport ----------------------------------------------------------
\* The transport of connection c goes away (the peer vanished); Bun has yet
\* to deliver the close event, and until then the session stays in its room
\* and every client.ws.send to it fails.
transportLost(c) ==
  /\ conn[c].st = "open"
  /\ c \notin down
  /\ down' = down \cup {c}
  /\ ev' = Event("lost", c, NoMsg, rooms, <<>>)
  /\ UNCHANGED <<rooms, conn, nextId, closes, msgs, issued, wire, log, notes, swarm>>

\* ---- websocket.drain ----------------------------------------------------
\* drain handler that disconnects the peer whose buffer backed up
drain_disconnect(c) ==
  /\ conn[c].st = "open"
  /\ ev' = Event("drain", c, NoMsg, rooms, <<>>)
  /\ rooms' = closeRooms(rooms, c)
  /\ conn' = [conn EXCEPT ![c].st = "closed"]
  /\ UNCHANGED <<nextId, closes, msgs, issued, wire, log, down, notes, swarm>>

drain(c) ==
  /\ conn[c].st = "open"
  /\ ev' = Event("drain", c, NoMsg, rooms, <<>>)
  /\ UNCHANGED <<rooms, conn, nextId, closes, msgs, issued, wire, log, down, notes, swarm>>

\* ---- sync-swarm: the debounced file watcher ---------------------------

\* String.prototype.endsWith
endsWith(str, t) ==
  Len(str) >= Len(t) /\ SubSeq(str, Len(str) - Len(t) + 1, Len(str)) = t

\* String.prototype.includes
includes(str, t) ==
  \E i \in 1..(Len(str) - Len(t) + 1) : SubSeq(str, i, i + Len(t) - 1) = t

shouldIgnore(filename) ==
  \/ \E ext \in ignoredExtensions : endsWith(filename, ext)
  \/ \E dir \in ignoredDirs : includes(filename, dir)

\* clearTimeout(handle): a timer that fired or was cleared is not pending
clearTimeout(ts, handle) == { t \in ts : t.id # handle }

\* a timer is due: the event loop runs it before it takes up another event
Expired == \E t \in timers : t.due <= now

\* debouncedSync that leaves the earlier timer running
debouncedSync_noClear ==
  /\ timers' = timers \cup {[id |-> Len(changes) + 1, due |-> now + SYNC_DEBOUNCE_MS]}
  /\ syncTimeout' = Len(changes) + 1
  /\ changes' = Append(changes, now)
  /\ UNCHANGED <<now, syncCalls, copies>>

\* debouncedSync(options): clear the pending timer, start a new one
debouncedSync ==
  /\ timers' = (IF syncTimeout # Null THEN clearTimeout(timers, syncTimeout) ELSE timers)
                  \cup {[id |-> Len(changes) + 1, due |-> now + SYNC_DEBOUNCE_MS]}
  /\ syncTimeout' = Len(changes) + 1
  /\ changes' = Append(changes, now)
  /\ UNCHANGED <<now, syncCalls, copies>>

\* the callback of fs.watch for one change event
watchEvent(filename) ==
  /\ ~Expired
  /\ Len(changes) < MaxChanges
  /\ IF filename # NoFilename /\ ~shouldIgnore(filename)
       THEN debouncedSync
       ELSE UNCHANGED swarm
  /\ UNCHANGED relay

\* the callback of setTimeout runs: syncToInstances(options) is called; the
\* handle in syncTimeout is left as it is
timerFires ==
  /\ \E t \in timers :
       /\ t.due <= now
       /\ timers' = timers \ {t}
  /\ syncCalls' = Append(syncCalls, now)
  /\ UNCHANGED <<now, syncTimeout, changes, copies>>
  /\ UNCHANGED relay

\* time passes, up to the moment the next timer is due
tick ==
  /\ ~Expired
  /\ now < MaxTime
  /\ LET next == now + TickMs
         dues == { t.due : t \in timers }
     IN now' = IF \E d \in dues : d < next
                 THEN CHOOSE d \in dues : \A e \in dues : d <= e
                 ELSE next
  /\ UNCHANGED <<syncTimeout, timers, changes, syncCalls, copies>>
  /\ UNCHANGED relay

\* ---- sync-swarm: syncToInstances ---------------------------------------
\* The per-instance state (syncProcess, its listeners, its timer, resolve)
\* lives in the closure of one call; the model follows one call, the initial
\* sync of main.  The copy process is Node's ChildProcess: "killed" is set by
\* a kill() that delivered its signal, not by the process exiting.

\* resolve(value) of the instance's promise: only the first call settles it
resolve(p, value) ==
  [p EXCEPT !.result = IF @ = "pending" THEN value ELSE @,
            !.resolves = @ + 1]

\* syncProcess.kill(sig): a running process gets the signal and ends; for a
\* process that is gone kill() returns false and leaves "killed" as it is
kill(p, sig) ==
  IF p.st = "running"
    THEN [p EXCEPT !.killed = TRUE, !.st = "exited", !.code = NoCode,
                   !.signal = sig, !.closeEv = "pending"]
    ELSE p

\* syncToInstances(options), as called by main, up to its await: a process
\* is spawned for every instance whose directory exists
syncToInstances(hostOS, present) ==
  /\ options = NoOptions
  /\ options' = [hostOS |-> hostOS, numInstances |-> NumInstances]
  /\ syncProcess' =
       [i \in Instances |->
          IF i \in present
            THEN [NotStarted EXCEPT !.st = "spawning", !.spawnTimeout = "pending"]
            ELSE NotStarted]
  /\ UNCHANGED <<summary, watch, relay>>

\* syncProcess.on('spawn'): the process runs; the 30 s timer is started
onSpawn(i) ==
  /\ syncProcess[i].st = "spawning"
  /\ syncProcess' = [syncProcess EXCEPT ![i].st = "running", ![i].timer = "pending"]
  /\ UNCHANGED <<options, summary, watch, relay>>

\* syncProcess.on('error'): the command could not be started; a 'close'
\* event may follow it
onError(i, closeFollows) ==
  /\ syncProcess[i].st = "spawning"
  /\ syncProcess' =
       [syncProcess EXCEPT ![i] =
          resolve([@ EXCEPT !.st = "failed", !.spawnTimeout = "none",
                            !.closeEv = IF closeFollows THEN "pending" ELSE "none"],
                  "error")]
  /\ UNCHANGED <<options, summary, watch, relay>>

\* the copy process ends on its own with the given exit code
exit(i, code) ==
  /\ syncProcess[i].st = "running"
  /\ syncProcess' = [syncProcess EXCEPT ![i].st = "exited", ![i].code = code,
                                        ![i].closeEv = "pending"]
  /\ UNCHANGED <<options, summary, watch, relay>>

\* syncProcess.on('close', (code, signal) => ...)
onClose(i) ==
  /\ syncProcess[i].closeEv = "pending"
  /\ LET code == syncProcess[i].code
         success == IF options.hostOS = "Windows"
                      THEN code = 0 \/ code = 1
                      ELSE code = 0
     IN syncProcess' =
          [syncProcess EXCEPT ![i] =
             resolve([@ EXCEPT !.closeEv = "done"],
                     IF success THEN "success" ELSE "failed")]
  /\ UNCHANGED <<options, summary, watch, relay>>

\* spawn's option timeout: 30000: the runtime ends a process that still runs
spawnTimeout(i) ==
  /\ syncProcess[i].spawnTimeout = "pending"
  /\ syncProcess[i].st # "spawning"
  /\ syncProcess' =
       [syncProcess EXCEPT ![i] = [kill(@, "SIGTERM") EXCEPT !.spawnTimeout = "done"]]
  /\ UNCHANGED <<options, summary, watch, relay>>

\* the callback of the 30 s timer started on 'spawn'
onTimeout(i) ==
  /\ syncProcess[i].timer = "pending"
  /\ syncProcess' =
       [syncProcess EXCEPT ![i] =
          IF ~@.killed
            THEN resolve([kill(@, "SIGKILL") EXCEPT
                            !.timer = "done",
                            !.timedOut = IF syncProcess[i].st = "running"
                                           THEN "running" ELSE "exited"],
                         "Timeout")
            ELSE [@ EXCEPT !.timer = "done"]]
  /\ UNCHANGED <<options, summary, watch, relay>>

\* after await Promise.all(syncPromises): the counts of the summary line
printSummary ==
  /\ options # NoOptions
  /\ summary = NoSummary
  /\ \A i \in Instances : syncProcess[i].st # "none" => syncProcess[i].result # "pending"
  /\ LET done == { i \in Instances : syncProcess[i].st # "none" }
     IN summary' =
          [successful |-> Cardinality({ i \in done : syncProcess[i].result = "success" }),
           failed |-> Cardinality({ i \in done : syncProcess[i].result # "success" })]
  /\ UNCHANGED <<options, syncProcess, watch, relay>>

\* ---- specification ------------------------------------------------------
Next ==
  \/ \E c \in Conns, p \in Pathnames : fetchUpgrade(c, p)
  \/ \E p \in Pathnames : fetchStatus(p)
  \/ \E c \in Conns : open(c)
  \/ \E c \in Conns, m \in Frames : message(c, m)
  \/ \E c \in Conns : close(c)
  \/ \E c \in Conns : drain(c)

Spec == Init /\ [][Next]_vars

\* The relay with the record of routed writes: connections come and go, and
\* peers transmit up to FifoMsgs frames, each one a frame to be routed or
\* text that does not parse.
NextFifo ==
  \/ \E c \in Conns, p \in Pathnames : fetchUpgrade(c, p)
  \/ \E c \in Conns : open(c)
  \/ \E c \in Conns : \E m \in RoutedFrames(c) : messageLogged(c, m)
  \/ \E c \in Conns : messageLogged(c, Garbage)
  \/ \E c \in Conns : close(c)

SpecFifo == Init /\ [][NextFifo]_vars

\* The relay with transports that fail: a connection may lose its transport
\* at any time after its open, before its close event is delivered.
NextWrites ==
  \/ \E c \in Conns, p \in Pathnames : fetchUpgrade(c, p)
  \/ \E c \in Conns : open(c)
  \/ \E c \in Conns : transportLost(c)
  \/ \E c \in Conns : \E m \in RoutedFrames(c) : message(c, m)
  \/ \E c \in Conns : close(c)

SpecWrites == Init /\ [][NextWrites]_vars

\* The lifecycle of the connections with the record of the lifecycle frames
\* written to each of them.
NextNotes ==
  \/ \E c \in Conns, p \in Pathnames : fetchUpgrade(c, p)
  \/ \E c \in Conns : openNoted(c)
  \/ \E c \in Conns : closeNoted(c)

SpecNotes == Init /\ [][NextNotes]_vars

\* The file watcher of sync-swarm: change events, the debounce timer, time.
NextWatch ==
  \/ \E f \in Filenames : watchEvent(f)
  \/ timerFires
  \/ tick

SpecWatch == Init /\ [][NextWatch]_vars

\* One call of syncToInstances: the copy processes, their events and timers.
NextSync ==
  \/ \E h \in HostOS, present \in SUBSET Instances : syncToInstances(h, present)
  \/ \E i \in Instances : onSpawn(i)
  \/ \E i \in Instances, b \in BOOLEAN : onError(i, b)
  \/ \E i \in Instances, code \in Codes : exit(i, code)
  \/ \E i \in Instances : onClose(i)
  \/ \E i \in Instances : spawnTimeout(i)
  \/ \E i \in Instances : onTimeout(i)
  \/ printSummary

SpecSync == Init /\ [][NextSync]_vars

\* The lifecycle of the connections (no inbound frames, which leave the
\* registry alone), when close events are eventually delivered: while Bun
\* has a close event to deliver, the event loop eventually runs the close
\* handler for one of them.  This is implied by fairness of each
\* connection's close event, and with finitely many connections it leaves
\* no close event pending for ever.
NextLive ==
  \/ \E c \in Conns, p \in Pathnames : fetchUpgrade(c, p)
  \/ \E p \in Pathnames : fetchStatus(p)
  \/ \E c \in Conns : open(c)
  \/ \E c \in Conns : close(c)
  \/ \E c \in Conns : drain(c)

SpecLive == Init /\ [][NextLive]_vars /\ WF_vars(\E c \in Conns : close(c))

TypeOK ==
  /\ nextId \in 1..(NumConns + 1)
  /\ msgs \in 0..MaxMsgs
  /\ \A c \in Conns : conn[c].st \in {"idle", "upgraded", "open", "closed"}

\* ---- vocabulary of the properties --------------------------------------
Range(q) == { q[i] : i \in 1..Len(q) }

\* keys of the registry
RoomKeys(rs) == { rs[i].id : i \in 1..Len(rs) }

\* the Client records of the room(s) with key R
MembersOf(rs, R) ==
  UNION { Range(rs[i].clients) : i \in { k \in 1..Len(rs) : rs[k].id = R } }

\* every Client record of the registry
ClientsIn(rs) == UNION { Range(rs[i].clients) : i \in 1..Len(rs) }

\* the Client records held for connection c
SessionsOfWs(rs, c) == { cl \in ClientsIn(rs) : cl.ws = c }

\* positions <<room, client>> of the registry
Slots(rs) ==
  UNION { { <<i, j>> : j \in 1..Len(rs[i].clients) } : i \in 1..Len(rs) }

\* a session is bound from the end of its open handler to its close handler
Bound(c) == conn[c].st = "open"

\* number of ws.send calls made to connection d
SendsToWs(sent, d) == Cardinality({ k \in 1..Len(sent) : sent[k].to = d })

\* the last event is a parsed frame from connection ev.ws carrying its own identifier
HonestFrame(cl) ==
  /\ ev.kind = "message"
  /\ cl \in SessionsOfWs(ev.before, ev.ws)
  /\ ev.msg.json
  /\ ev.msg.sender = cl.id

\* ---- C1 -----------------------------------------------------------------
\* C1: after every completed event a room identifier is a key of the registry
\* exactly when at least one bound session has that room; the registry holds
\* no empty room and has one entry per key.
C1_RoomIffBoundSession ==
  /\ \A i \in 1..Len(rooms) : rooms[i].clients # <<>>
  /\ \A i, j \in 1..Len(rooms) : rooms[i].id = rooms[j].id => i = j
  /\ RoomKeys(rooms) = { conn[c].roomId : c \in { d \in Conns : Bound(d) } }

\* a join created a second room next to an occupied one
C1_Witness ==
  /\ ev.kind = "open"
  /\ Len(ev.before) = 1
  /\ Len(rooms) = 2

\* ---- C2 -----------------------------------------------------------------
\* C2: a frame is routed (delivered to anybody) only if its sender field is
\* present and equals the identifier of the session of the connection that
\* produced it.
C2_SenderMustMatchConnection ==
  (ev.kind = "message" /\ ev.sent # <<>>) =>
    \E cl \in SessionsOfWs(ev.before, ev.ws) : ev.msg.sender = cl.id

\* ---- C3 -----------------------------------------------------------------
\* C3: a broadcast frame produced by member A (carrying A's identifier) is
\* written exactly once to each other member of A's room, to nobody else and
\* not to A, and what is written is the frame.
C3_BroadcastExactlyOnceToOthers ==
  \A cl \in SessionsOfWs(ev.before, ev.ws) :
    (HonestFrame(cl) /\ ev.msg.type = "broadcast") =>
      /\ \A d \in Conns :
           SendsToWs(ev.sent, d) =
             IF d # ev.ws /\ \E o \in MembersOf(ev.before, cl.roomId) : o.ws = d
               THEN 1 ELSE 0
      /\ \A k \in 1..Len(ev.sent) : ev.sent[k].msg = ev.msg

\* a broadcast from one member of a room of three
C3_Witness ==
  \E cl \in SessionsOfWs(ev.before, ev.ws) :
    /\ HonestFrame(cl)
    /\ ev.msg.type = "broadcast"
    /\ Cardinality(MembersOf(ev.before, cl.roomId)) = 3
    /\ Len(ev.sent) = 2

\* ---- C4 -----------------------------------------------------------------
\* C4: a directed frame produced by A (carrying A's identifier) whose target
\* B is a member of A's room is written exactly once, to B, and to no other
\* session.
C4_DirectedOnlyToTarget ==
  \A cl \in SessionsOfWs(ev.before, ev.ws) :
    (HonestFrame(cl) /\ ev.msg.type \in Directed) =>
      \A b \in MembersOf(ev.before, cl.roomId) :
        b.id = ev.msg.target => ev.sent = << [to |-> b.ws, msg |-> ev.msg] >>

\* an offer from A to B in a room that also holds C
C4_Witness ==
  \E cl \in SessionsOfWs(ev.before, ev.ws) :
    /\ HonestFrame(cl)
    /\ ev.msg.type = "offer"
    /\ ev.msg.target # cl.id
    /\ Cardinality(MembersOf(ev.before, cl.roomId)) = 3
    /\ Len(ev.sent) = 1

\* ---- C5 -----------------------------------------------------------------
\* C5: whatever its envelope says, a frame produced by a connection bound to
\* room R is never written to a session bound to another room.
C5_RoomIsolation ==
  ev.kind = "message" =>
    \A k \in 1..Len(ev.sent) : conn[ev.sent[k].to].roomId = conn[ev.ws].roomId

\* ---- C6 -----------------------------------------------------------------
\* C6: when session B closes in a room with other members, every remaining
\* member is written exactly one frame, the peer-left naming B, and the
\* room's membership afterwards is the previous membership without B, in the
\* same order.
C6_PeerLeftOncePerRemainingMember ==
  \A b \in SessionsOfWs(ev.before, ev.ws) :
    (ev.kind = "close" /\ Cardinality(MembersOf(ev.before, b.roomId)) > 1) =>
      /\ \A a \in MembersOf(ev.before, b.roomId) \ {b} :
           /\ SendsToWs(ev.sent, a.ws) = 1
           /\ \E k \in 1..Len(ev.sent) :
                ev.sent[k] = [to |-> a.ws, msg |-> PeerLeft(b.id)]
      /\ MembersOf(rooms, b.roomId) = MembersOf(ev.before, b.roomId) \ {b}
      /\ \A i \in 1..Len(rooms) : \A j \in 1..Len(ev.before) :
           (rooms[i].id = b.roomId /\ ev.before[j].id = b.roomId) =>
             rooms[i].clients = SelectSeq(ev.before[j].clients, LAMBDA x : x # b)

\* one of three members of a room closed
C6_Witness ==
  \E b \in SessionsOfWs(ev.before, ev.ws) :
    /\ ev.kind = "close"
    /\ Cardinality(MembersOf(ev.before, b.roomId)) = 3
    /\ Len(ev.sent) = 2

\* ---- C7 -----------------------------------------------------------------
\* C7: the first close of a connection removes its session from the
\* registry; a close delivered again for the same connection leaves the
\* registry as it was and writes nothing, so the session is removed once and
\* one peer-left broadcast is made for it.
C7_TeardownIdempotent ==
  ev.kind = "close" =>
    /\ SessionsOfWs(rooms, ev.ws) = {}
    /\ closes[ev.ws] = 1 => Cardinality(SessionsOfWs(ev.before, ev.ws)) = 1
    /\ closes[ev.ws] >= 2 =>
         /\ SessionsOfWs(ev.before, ev.ws) = {}
         /\ rooms = ev.before
         /\ ev.sent = <<>>

\* a second close arrived for a connection whose room still has members
C7_Witness ==
  /\ ev.kind = "close"
  /\ closes[ev.ws] = 2
  /\ MembersOf(rooms, conn[ev.ws].roomId) # {}

\* ---- C8 -----------------------------------------------------------------
\* C8: a join to a room that is not in the registry creates it with the
\* joiner as its only member; when the last member of a room leaves, the room
\* is gone from the registry after that same event and the count the status
\* page reports (rooms.size) is one less than before it.
C8_RoomLifecycle ==
  /\ (ev.kind = "open" /\ conn[ev.ws].roomId \notin RoomKeys(ev.before)) =>
       /\ Cardinality({ i \in 1..Len(rooms) : rooms[i].id = conn[ev.ws].roomId }) = 1
       /\ Cardinality(MembersOf(rooms, conn[ev.ws].roomId)) = 1
       /\ \A cl \in MembersOf(rooms, conn[ev.ws].roomId) : cl.ws = ev.ws
       /\ activeRooms(rooms) = activeRooms(ev.before) + 1
  /\ \A b \in SessionsOfWs(ev.before, ev.ws) :
       (ev.kind = "close" /\ MembersOf(ev.before, b.roomId) = {b}) =>
         /\ b.roomId \notin RoomKeys(rooms)
         /\ activeRooms(rooms) = activeRooms(ev.before) - 1
  /\ ev.kind = "status" => ev.msg.activeRooms = Cardinality(RoomKeys(rooms))

\* the last member of one of two rooms left
C8_Witness ==
  \E b \in SessionsOfWs(ev.before, ev.ws) :
    /\ ev.kind = "close"
    /\ MembersOf(ev.before, b.roomId) = {b}
    /\ activeRooms(ev.before) = 2

\* ---- C9 -----------------------------------------------------------------
\* C9: in every step, a room that leaves the registry has no bound session
\* afterwards, and a session found in the registry is still found there after
\* the step unless the step is the close of its own connection.
C9_JoinLeaveAtomic ==
  [][ /\ \A R \in RoomKeys(rooms) \ RoomKeys(rooms') :
           ~\E c \in Conns : conn'[c].st = "open" /\ conn'[c].roomId = R
      /\ \A c \in Conns :
           (SessionsOfWs(rooms, c) # {} /\ ~(ev'.kind = "close" /\ ev'.ws = c)) =>
             SessionsOfWs(rooms', c) = SessionsOfWs(rooms, c)
    ]_vars

\* a join into a room that another session has already left and a third
\* session still occupies
C9_Witness ==
  /\ ev.kind = "open"
  /\ conn[ev.ws].roomId \in RoomKeys(ev.before)
  /\ \E c \in Conns : conn[c].st = "closed" /\ conn[c].roomId = conn[ev.ws].roomId

\* ---- C10 ----------------------------------------------------------------
\* C10: a bound session has exactly one entry in the registry, in the room
\* of its ws.data.roomId; a connection that is not bound has none; and no
\* client identifier appears in two entries.
C10_ExactlyOneRoom ==
  /\ \A c \in Conns :
       Cardinality({ p \in Slots(rooms) : rooms[p[1]].clients[p[2]].ws = c }) =
         IF Bound(c) THEN 1 ELSE 0
  /\ \A p \in Slots(rooms) :
       LET cl == rooms[p[1]].clients[p[2]] IN
         /\ rooms[p[1]].id = conn[cl.ws].roomId
         /\ cl.roomId = conn[cl.ws].roomId
  /\ \A p, q \in Slots(rooms) :
       rooms[p[1]].clients[p[2]].id = rooms[q[1]].clients[q[2]].id => p = q

\* three bound sessions spread over two rooms
C10_Witness ==
  /\ \A c \in Conns : Bound(c)
  /\ Len(rooms) = 2

\* ---- C11 ----------------------------------------------------------------
\* C11: every join is assigned an identifier by the server, and no two of
\* the identifiers assigned so far (to sessions still bound or already
\* closed, in any room) are equal; every registry entry carries one of them.
C11_UniqueClientIds ==
  /\ \A i, j \in 1..Len(issued) : issued[i] = issued[j] => i = j
  /\ Len(issued) = Cardinality({ c \in Conns : conn[c].st \in {"open", "closed"} })
  /\ \A cl \in ClientsIn(rooms) : cl.id \in Range(issued)

\* a third identifier was assigned after an earlier session had closed
C11_Witness ==
  /\ ev.kind = "open"
  /\ Len(issued) = 3
  /\ \E c \in Conns : conn[c].st = "closed"

\* ---- C12 ----------------------------------------------------------------
\* C12: the open handler leaves exactly one session for its connection, in
\* one room, where there was none; and whenever a message event of a
\* connection is handled, the registry already holds exactly one session of
\* that connection, in the room of its ws.data.roomId.
C12_SessionBoundBeforeMessages ==
  /\ ev.kind = "open" =>
       /\ SessionsOfWs(ev.before, ev.ws) = {}
       /\ Cardinality({ p \in Slots(rooms) : rooms[p[1]].clients[p[2]].ws = ev.ws }) = 1
  /\ ev.kind = "message" =>
       /\ Cardinality({ p \in Slots(ev.before) :
                          ev.before[p[1]].clients[p[2]].ws = ev.ws }) = 1
       /\ \A p \in Slots(ev.before) :
            ev.before[p[1]].clients[p[2]].ws = ev.ws =>
              ev.before[p[1]].id = conn[ev.ws].roomId

\* a frame of a connection handled while two rooms are occupied
C12_Witness ==
  /\ ev.kind = "message"
  /\ Len(ev.before) = 2
  /\ SessionsOfWs(ev.before, ev.ws) # {}

\* ---- C13 ----------------------------------------------------------------
\* C13: a connection that has not been opened has been written nothing; a
\* connection that has been opened has been written exactly one "connected"
\* frame, that frame was the first one written to it, and its clientId is the
\* identifier under which the session is registered.
C13_ConnectedOnceAndFirst ==
  \A c \in Conns :
    /\ conn[c].st \in {"idle", "upgraded"} =>
         wire[c] = [first |-> NoMsg, connected |-> 0]
    /\ conn[c].st \in {"open", "closed"} =>
         /\ wire[c].connected = 1
         /\ wire[c].first.type = "connected"
         /\ wire[c].first.clientId \in Range(issued)
    /\ \A cl \in SessionsOfWs(rooms, c) : wire[c].first = Connected(cl.id)

\* a join into a room of two: the joiner is greeted, the others notified
C13_Witness ==
  /\ ev.kind = "open"
  /\ Len(ev.sent) = 3
  /\ \A c \in Conns : wire[c].connected = 1

\* ---- C14 ----------------------------------------------------------------
\* C14: when session X joins a room, every session that was already a member
\* is written exactly one frame, the peer-joined naming X, and X itself is
\* written no peer-joined.
C14_PeerJoinedOncePerExistingMember ==
  ev.kind = "open" =>
    \A x \in SessionsOfWs(rooms, ev.ws) :
      /\ \A a \in MembersOf(ev.before, conn[ev.ws].roomId) :
           /\ SendsToWs(ev.sent, a.ws) = 1
           /\ \E k \in 1..Len(ev.sent) :
                /\ ev.sent[k].to = a.ws
                /\ ev.sent[k].msg.type = "peer-joined"
                /\ ev.sent[k].msg.peerId = x.id
      /\ \A k \in 1..Len(ev.sent) :
           ev.sent[k].to = ev.ws => ev.sent[k].msg.type # "peer-joined"

\* a join into a room that already had two members
C14_Witness ==
  /\ ev.kind = "open"
  /\ Cardinality(MembersOf(ev.before, conn[ev.ws].roomId)) = 2

\* ---- C15 ----------------------------------------------------------------
\* C15: a connection only moves idle -> upgraded (Connecting) -> open
\* (Joined) -> closed (Closing, Closed); it is open only with its session in
\* the registry; once closed, its connection and its identifier are in no
\* room after any later step, no peer-left naming it is written again, and a
\* further close of it changes nothing and writes nothing.
C15_SessionStateMachine ==
  [][ \A c \in Conns :
        /\ <<conn[c].st, conn'[c].st>> \in
             { <<"idle", "idle">>, <<"idle", "upgraded">>,
               <<"upgraded", "upgraded">>, <<"upgraded", "open">>,
               <<"open", "open">>, <<"open", "closed">>,
               <<"closed", "closed">> }
        /\ conn'[c].st = "open" => SessionsOfWs(rooms', c) # {}
        /\ conn[c].st = "closed" =>
             /\ SessionsOfWs(rooms', c) = {}
             /\ wire[c].first.type = "connected"
             /\ \A cl \in ClientsIn(rooms') : cl.id # wire[c].first.clientId
             /\ \A k \in 1..Len(ev'.sent) :
                  ev'.sent[k].msg.type = "peer-left" =>
                    ev'.sent[k].msg.peerId # wire[c].first.clientId
             /\ (ev'.kind = "close" /\ ev'.ws = c) =>
                  (rooms' = rooms /\ ev'.sent = <<>>)
    ]_vars

\* a session joined a room that a twice-closed connection had been in
C15_Witness ==
  /\ ev.kind = "open"
  /\ \E c \in Conns : closes[c] = 2 /\ conn[c].roomId = conn[ev.ws].roomId

\* ---- C17 ----------------------------------------------------------------
\* the Client records of the room in which the registry holds identifier id
RoomOfSender(rs, id) ==
  UNION { Range(rs[i].clients) :
            i \in { k \in 1..Len(rs) : \E cl \in Range(rs[k].clients) : cl.id = id } }

\* C17: a directed frame whose target is absent or names no member of its
\* sender's room is written to nobody (neither a session nor, as a reply, the
\* sender) and leaves the registry as it was.
C17_UnknownTargetDropped ==
  (/\ ev.kind = "message"
   /\ ev.msg.json
   /\ ev.msg.type \in Directed
   /\ \/ ev.msg.target = Absent
      \/ \A cl \in RoomOfSender(ev.before, ev.msg.sender) : cl.id # ev.msg.target) =>
    /\ ev.sent = <<>>
    /\ rooms = ev.before

\* an ice-candidate from a member of a shared room to a session of another room
C17_Witness ==
  \E a \in SessionsOfWs(ev.before, ev.ws) :
    /\ HonestFrame(a)
    /\ ev.msg.type = "ice-candidate"
    /\ Cardinality(MembersOf(ev.before, a.roomId)) = 2
    /\ \E o \in ClientsIn(ev.before) : o.id = ev.msg.target /\ o.roomId # a.roomId
    /\ ev.sent = <<>>

\* ---- C18 ----------------------------------------------------------------
\* C18: a frame that JSON.parse rejects, or whose sender is missing, is
\* written to nobody (not to its producer either) and leaves the registry as
\* it was.
C18_MalformedDropped ==
  (ev.kind = "message" /\ (~ev.msg.json \/ ev.msg.sender = Absent)) =>
    /\ ev.sent = <<>>
    /\ rooms = ev.before

\* an unparseable frame from a member of a room of three
C18_Witness ==
  /\ ev.kind = "message"
  /\ ~ev.msg.json
  /\ Cardinality(MembersOf(ev.before, conn[ev.ws].roomId)) = 3

\* ---- C19 ----------------------------------------------------------------
\* C19: a frame whose sender identifier is in no room of the registry is
\* written to nobody and leaves the registry as it was.
C19_UnknownSenderDropped ==
  (/\ ev.kind = "message"
   /\ ev.msg.json
   /\ ev.msg.sender # Absent
   /\ \A cl \in ClientsIn(ev.before) : cl.id # ev.msg.sender) =>
    /\ ev.sent = <<>>
    /\ rooms = ev.before

\* a broadcast naming a session that was torn down, while two rooms are occupied
C19_Witness ==
  /\ ev.kind = "message"
  /\ ev.msg.json
  /\ ev.msg.type = "broadcast"
  /\ ev.msg.sender \in Range(issued)
  /\ \A cl \in ClientsIn(ev.before) : cl.id # ev.msg.sender
  /\ Cardinality(ClientsIn(ev.before)) = 2

\* ---- C20 ----------------------------------------------------------------
\* C20: a frame whose type is none of offer, answer, ice-candidate and
\* broadcast is written to nobody and leaves the registry as it was.
C20_UnknownTypeDropped ==
  (/\ ev.kind = "message"
   /\ ev.msg.json
   /\ ev.msg.type \notin {"offer", "answer", "ice-candidate", "broadcast"}) =>
    /\ ev.sent = <<>>
    /\ rooms = ev.before

\* a frame of unknown type from a member of a room of three
C20_Witness ==
  \E a \in SessionsOfWs(ev.before, ev.ws) :
    /\ HonestFrame(a)
    /\ ev.msg.type = "bogus"
    /\ Cardinality(MembersOf(ev.before, a.roomId)) = 3

C21_PayloadAgnostic ==
  ev.kind = "message" =>
    /\ \A k \in 1..Len(ev.sent) : ev.sent[k].msg = ev.msg
    /\ \A p \in Payloads :
         LET sends == route(ev.before, [ev.msg EXCEPT !.payload = p])
         IN /\ Len(sends) = Len(ev.sent)
            /\ \A k \in 1..Len(sends) : sends[k].to = ev.sent[k].to

\* a directed frame with an ICE payload was forwarded to its target
C21_Witness ==
  /\ ev.kind = "message"
  /\ ev.msg.type = "answer"
  /\ ev.msg.payload = "ice"
  /\ Len(ev.sent) = 1
  /\ ev.sent[1].to # ev.ws

\* ---- C22 ----------------------------------------------------------------
\* C22: a request that is not a WebSocket upgrade is answered with status 200
\* and the number of rooms, which is the number of distinct rooms having at
\* least one bound session; it changes neither the registry nor any
\* connection nor what was written to any session.
C22_StatusPageReadOnly ==
  [][ev'.kind = "status" =>
       /\ ev'.msg.status = 200
       /\ ev'.msg.activeRooms =
            Cardinality({ conn[c].roomId : c \in { d \in Conns : Bound(d) } })
       /\ ev'.sent = <<>>
       /\ UNCHANGED <<rooms, conn, nextId, closes, issued, wire, log>>]_vars

\* the status page was served while two sessions shared one of two rooms
C22_Witness ==
  /\ ev.kind = "status"
  /\ ev.msg.activeRooms = 2
  /\ Cardinality(ClientsIn(rooms)) = 3

\* ---- C23 ----------------------------------------------------------------
\* C23: the room of a connection is its request path without the leading
\* slash, or "default" when that is empty, so "/" and "/default" name one
\* room; two bound sessions are in the same room of the registry exactly when
\* the identifiers derived for their connections are equal.
C23_RoomIdFromPath ==
  /\ ev.kind = "upgrade" =>
       conn[ev.ws].roomId =
         IF Tail(ev.msg.pathname) = <<>> THEN DefaultRoom ELSE Tail(ev.msg.pathname)
  /\ roomIdOf(<<"/">>) = roomIdOf(<<"/">> \o DefaultRoom)
  /\ \A a, b \in ClientsIn(rooms) :
       (\E i \in 1..Len(rooms) : {a, b} \subseteq Range(rooms[i].clients))
         <=> conn[a.ws].roomId = conn[b.ws].roomId

\* a connection to "/" was accepted while a session that asked for "/default"
\* or "/" is in the room "default"
C23_Witness ==
  /\ ev.kind = "upgrade"
  /\ ev.msg.pathname = <<"/">>
  /\ conn[ev.ws].roomId = DefaultRoom
  /\ \E cl \in MembersOf(rooms, DefaultRoom) : cl.ws # ev.ws
  /\ Len(rooms) = 2

\* ---- C24 ----------------------------------------------------------------
\* C24: handling an inbound frame, whatever it is, changes neither the
\* registry nor the state of any connection: no session is added, removed,
\* closed or replaced.
C24_MessageKeepsRegistry ==
  [][ev'.kind = "message" =>
       UNCHANGED <<rooms, conn, nextId, closes, issued>>]_vars

\* a frame that does not parse was handled while two rooms were occupied
C24_Witness ==
  /\ ev.kind = "message"
  /\ ev.msg = Garbage
  /\ Len(rooms) = 2
  /\ rooms = ev.before

\* ---- C25 ----------------------------------------------------------------
\* a frame the relay drops: it does not parse, has no sender, names a sender
\* that is in no room, has an unknown type, or is directed to an identifier
\* that is not in the sender's room
Unroutable(rs, m) ==
  \/ ~m.json
  \/ m.sender = Absent
  \/ \A cl \in ClientsIn(rs) : cl.id # m.sender
  \/ m.type \notin Directed \cup {"broadcast"}
  \/ /\ m.type \in Directed
     /\ ~\E a, b \in ClientsIn(rs) :
           a.id = m.sender /\ b.id = m.target /\ a.roomId = b.roomId

\* C25: handling a malformed or unroutable frame writes to nobody and leaves
\* the registry, every connection and everything written so far as they
\* were, so every later frame is handled in the state it would have met had
\* the bad frame not been sent.
C25_ErrorIsolation ==
  [][(ev'.kind = "message" /\ msgs' = msgs + 1 /\ Unroutable(rooms, ev'.msg)) =>
       /\ ev'.sent = <<>>
       /\ UNCHANGED <<rooms, conn, nextId, closes, issued, wire, log>>]_vars

\* the second of two frames was routed in a room of three whose members have
\* been written no routed frame before it: the first frame was dropped
C25_Witness ==
  /\ msgs = 2
  /\ ev.kind = "message"
  /\ ev.msg.type = "broadcast"
  /\ Len(ev.sent) = 2
  /\ Len(ev.before) = 1
  /\ \A b \in Conns : \A i \in 1..Len(log[b]) : log[b][i].n = 2

\* ---- C26 ----------------------------------------------------------------
\* C26: a close event for a connection that has no session in the registry
\* changes nothing: the registry, the identifiers and everything written to
\* any session stay as they were, and no peer-left (no frame at all) is sent.
C26_CloseWithoutEntryIsNoOp ==
  [][(/\ ev'.kind = "close"
      /\ closes' # closes
      /\ SessionsOfWs(rooms, ev'.ws) = {}) =>
       /\ ev'.sent = <<>>
       /\ UNCHANGED <<rooms, nextId, issued, wire, log>>]_vars

\* a close arrived for a connection without a session while the room it had
\* joined still has two members
C26_Witness ==
  /\ ev.kind = "close"
  /\ SessionsOfWs(ev.before, ev.ws) = {}
  /\ Cardinality(MembersOf(rooms, conn[ev.ws].roomId)) = 2

\* ---- C27 ----------------------------------------------------------------
\* the connections written to by the last event
Recipients == { ev.sent[k].to : k \in 1..Len(ev.sent) }

\* C27: whatever an event writes goes to sessions that are in the registry
\* and bound when the handler ends, never to a session torn down before; a
\* join reaches the whole room (the joiner included, with its greeting), a
\* close reaches exactly the members that remain and never the closing
\* session, and a broadcast reaches exactly the other members of the room
\* the registry holds its sender in.
C27_ConsistentMembershipSnapshot ==
  /\ \A d \in Recipients : Bound(d) /\ SessionsOfWs(rooms, d) # {}
  /\ ev.kind = "open" =>
       Recipients = { cl.ws : cl \in MembersOf(rooms, conn[ev.ws].roomId) }
  /\ ev.kind = "close" =>
       /\ ev.ws \notin Recipients
       /\ Recipients =
            IF SessionsOfWs(ev.before, ev.ws) = {} THEN {}
            ELSE { cl.ws : cl \in MembersOf(rooms, conn[ev.ws].roomId) }
  /\ (ev.kind = "message" /\ ev.msg.json /\ ev.msg.type = "broadcast") =>
       Recipients =
         { cl.ws : cl \in { x \in RoomOfSender(rooms, ev.msg.sender) :
                              x.id # ev.msg.sender } }

\* a broadcast was routed in a room one of whose sessions had been torn down
C27_Witness ==
  /\ ev.kind = "message"
  /\ ev.msg.type = "broadcast"
  /\ Len(ev.sent) = 1
  /\ \E c \in Conns :
       /\ conn[c].st = "closed"
       /\ conn[c].roomId = conn[ev.ws].roomId
       /\ conn[ev.sent[1].to].roomId = conn[c].roomId

\* ---- C28 ----------------------------------------------------------------
\* the close handler has run for connection c with its full effect: the
\* session is gone, its room is gone if it was the last member, and otherwise
\* every remaining member was written the peer-left naming it
CloseDone(c) ==
  /\ ev.kind = "close"
  /\ ev.ws = c
  /\ SessionsOfWs(ev.before, c) # {}
  /\ SessionsOfWs(rooms, c) = {}
  /\ \A b \in SessionsOfWs(ev.before, c) :
       IF MembersOf(ev.before, b.roomId) = {b}
         THEN b.roomId \notin RoomKeys(rooms)
         ELSE \A a \in MembersOf(ev.before, b.roomId) \ {b} :
                \E k \in 1..Len(ev.sent) :
                  ev.sent[k] = [to |-> a.ws, msg |-> PeerLeft(b.id)]

\* C28: when close events are eventually delivered, every bound session is
\* eventually removed from the registry, together with its room if it was
\* the last member, and otherwise with a peer-left written to every
\* remaining member.
C28_CleanupLiveness == \A c \in Conns : Bound(c) ~> CloseDone(c)

\* the last member of one room closed while another room is occupied
C28_Witness ==
  \E c \in Conns :
    /\ CloseDone(c)
    /\ Len(ev.before) = 2
    /\ Len(rooms) = 1
    /\ ev.sent = <<>>

\* ---- C29 ----------------------------------------------------------------
\* C29: a drain event is only logged: it writes no frame and changes neither
\* the registry, nor any connection, nor anything written to any session.
C29_DrainOnlyLogged ==
  [][ev'.kind = "drain" =>
       /\ ev'.sent = <<>>
       /\ UNCHANGED <<rooms, conn, nextId, closes, msgs, issued, wire, log>>]_vars

\* a drain event for a session of a room of three, after a frame was handled
C29_Witness ==
  /\ ev.kind = "drain"
  /\ msgs = 1
  /\ Cardinality(MembersOf(rooms, conn[ev.ws].roomId)) = 3
  /\ rooms = ev.before

\* ---- C30 ----------------------------------------------------------------
\* C30: a join, a leave or an inbound frame of a connection of room R leaves
\* the entries of every other room as they were and writes to sessions of
\* room R only.
C30_OtherRoomsUntouched ==
  ev.kind \in {"open", "close", "message"} =>
    /\ SelectSeq(rooms, LAMBDA e : e.id # conn[ev.ws].roomId)
         = SelectSeq(ev.before, LAMBDA e : e.id # conn[ev.ws].roomId)
    /\ \A k \in 1..Len(ev.sent) : conn[ev.sent[k].to].roomId = conn[ev.ws].roomId

\* the same for joins, leaves and frames that carry their producer's identifier
C30_HonestEventsConfined ==
  (\/ ev.kind \in {"open", "close"}
   \/ \E cl \in SessionsOfWs(ev.before, ev.ws) : HonestFrame(cl)) =>
    /\ SelectSeq(rooms, LAMBDA e : e.id # conn[ev.ws].roomId)
         = SelectSeq(ev.before, LAMBDA e : e.id # conn[ev.ws].roomId)
    /\ \A k \in 1..Len(ev.sent) : conn[ev.sent[k].to].roomId = conn[ev.ws].roomId

\* ---- C31 ----------------------------------------------------------------
\* the connections of the given clients, in their order, without the client
\* whose identifier is id
WsInOrder(clients, id) ==
  LET q == SelectSeq(clients, LAMBDA x : x.id # id)
  IN [k \in 1..Len(q) |-> q[k].ws]

\* position of identifier id in the order in which open assigned identifiers
JoinRank(id) == CHOOSE k \in 1..Len(issued) : issued[k] = id

\* C31: the members of a room are held in the order in which they joined,
\* and a peer-joined broadcast, a peer-left broadcast and a client broadcast
\* each write to their recipients in that order.
C31_BroadcastInJoinOrder ==
  /\ \A i \in 1..Len(rooms) : \A j, k \in 1..Len(rooms[i].clients) :
       j < k => JoinRank(rooms[i].clients[j].id) < JoinRank(rooms[i].clients[k].id)
  /\ ev.kind = "open" =>
       \A cl \in SessionsOfWs(rooms, ev.ws) :
         [k \in 1..(Len(ev.sent) - 1) |-> ev.sent[k + 1].to]
           = WsInOrder(rooms[IndexOf(rooms, cl.roomId)].clients, cl.id)
  /\ ev.kind = "close" =>
       \A cl \in SessionsOfWs(ev.before, ev.ws) :
         [k \in 1..Len(ev.sent) |-> ev.sent[k].to]
           = WsInOrder(ev.before[IndexOf(ev.before, cl.roomId)].clients, cl.id)
  /\ (ev.kind = "message" /\ ev.msg.json /\ ev.msg.type = "broadcast") =>
       \A i \in 1..Len(ev.before) :
         Has(ev.before[i].clients, ev.msg.sender) =>
           [k \in 1..Len(ev.sent) |-> ev.sent[k].to]
             = WsInOrder(ev.before[i].clients, ev.msg.sender)

\* the member of a room of three that joined second broadcast a frame: the
\* first write went to the member that joined first
C31_Witness ==
  /\ ev.kind = "message"
  /\ ev.msg.type = "broadcast"
  /\ Len(ev.sent) = 2
  /\ \E cl \in SessionsOfWs(ev.before, ev.ws) :
       /\ cl.id = ev.msg.sender
       /\ JoinRank(cl.id) = 2
  /\ ev.sent[1].to = 1
  /\ ev.sent[2].to = 3

\* ---- C32 ----------------------------------------------------------------
\* C32: a broadcast (peer-joined, peer-left or a client broadcast) attempts
\* the write to each of its recipients exactly once, whether or not the
\* write to that or to an earlier recipient fails; and a close leaves no
\* emptied room in the registry.
C32_WritesIndependent ==
  /\ ev.kind = "open" =>
       \A cl \in MembersOf(rooms, conn[ev.ws].roomId) : SendsToWs(ev.sent, cl.ws) = 1
  /\ ev.kind = "close" =>
       \A b \in SessionsOfWs(ev.before, ev.ws) :
         /\ \A cl \in MembersOf(ev.before, b.roomId) \ {b} :
              SendsToWs(ev.sent, cl.ws) = 1
         /\ MembersOf(ev.before, b.roomId) = {b} => b.roomId \notin RoomKeys(rooms)
  /\ (ev.kind = "message" /\ ev.msg.type = "broadcast") =>
       \A cl \in RoomOfSender(ev.before, ev.msg.sender) :
         SendsToWs(ev.sent, cl.ws) = IF cl.id = ev.msg.sender THEN 0 ELSE 1

\* a broadcast in a room of three: the write to the first recipient failed
\* and the write to the second was made
C32_Witness ==
  /\ ev.kind = "message"
  /\ ev.msg.type = "broadcast"
  /\ Len(ev.sent) = 2
  /\ ev.sent[1].to \in down
  /\ ev.sent[2].to \notin down

\* ---- C33 ----------------------------------------------------------------
\* C33 as claimed: a directed frame is never written to the session that
\* produced it; a frame whose target is its own sender is written to nobody.
C33_NeverBackToProducer ==
  \A cl \in SessionsOfWs(ev.before, ev.ws) :
    (HonestFrame(cl) /\ ev.msg.type \in Directed) =>
      /\ \A k \in 1..Len(ev.sent) : ev.sent[k].to # ev.ws
      /\ ev.msg.target = ev.msg.sender => ev.sent = <<>>

\* C33 as amended: a directed frame is written to no session but the one its
\* target names; a frame whose target is its own sender is written back to
\* the session that produced it, once, and to nobody else.
C33_SelfTargetDeliveredBack ==
  \A cl \in SessionsOfWs(ev.before, ev.ws) :
    (HonestFrame(cl) /\ ev.msg.type \in Directed) =>
      /\ \A k \in 1..Len(ev.sent) :
           \E t \in SessionsOfWs(ev.before, ev.sent[k].to) : t.id = ev.msg.target
      /\ ev.msg.target = ev.msg.sender =>
           ev.sent = << [to |-> ev.ws, msg |-> ev.msg] >>

\* an offer addressed to its own sender, from a member of a room of three
C33_Witness ==
  \E cl \in SessionsOfWs(ev.before, ev.ws) :
    /\ HonestFrame(cl)
    /\ ev.msg.type = "offer"
    /\ ev.msg.target = cl.id
    /\ Cardinality(MembersOf(ev.before, cl.roomId)) = 3
    /\ Len(ev.sent) = 1

\* ---- C34 ----------------------------------------------------------------
\* the identifier open assigned to connection c (the clientId of the
\* "connected" frame, the first frame written to c)
IdOfWs(c) == wire[c].first.clientId

\* C34: a connection is written peer-joined for an identifier at most once
\* and peer-left for it at most once, never peer-joined after peer-left, and
\* nothing about its own identifier; a session that was in the room before
\* session X joined and is still bound after X's close has been written
\* both, peer-joined first.
C34_LifecycleNotesPaired ==
  /\ \A b \in Conns : \A x \in ClientIds :
       notes[b][x] \in {<<>>, <<"J">>, <<"J", "L">>, <<"L">>}
  /\ \A b, c \in Conns :
       (/\ Bound(b)
        /\ conn[c].st = "closed"
        /\ conn[b].roomId = conn[c].roomId
        /\ JoinRank(IdOfWs(b)) < JoinRank(IdOfWs(c))) =>
         notes[b][IdOfWs(c)] = <<"J", "L">>
  /\ \A b \in Conns : wire[b].first # NoMsg => notes[b][IdOfWs(b)] = <<>>

\* a bound session has seen one peer come and go and another only go
C34_Witness ==
  \E b \in Conns : \E x, y \in ClientIds :
    /\ Bound(b)
    /\ notes[b][x] = <<"J", "L">>
    /\ notes[b][y] = <<"L">>

\* ---- C35 ----------------------------------------------------------------
\* C35: the open handler writes one frame to the joiner, its "connected"
\* frame, whoever is in the room already; and a connection is written
\* peer-joined only for sessions that joined after its own.
C35_JoinerToldNothing ==
  /\ ev.kind = "open" =>
       /\ SendsToWs(ev.sent, ev.ws) = 1
       /\ \A k \in 1..Len(ev.sent) :
            ev.sent[k].to = ev.ws => ev.sent[k].msg = Connected(IdOfWs(ev.ws))
  /\ \A b \in Conns : \A x \in ClientIds :
       (\E k \in 1..Len(notes[b][x]) : notes[b][x][k] = "J") =>
         /\ wire[b].first.type = "connected"
         /\ JoinRank(IdOfWs(b)) < JoinRank(x)

\* a session joined a room of two and has been written nothing about them
C35_Witness ==
  /\ ev.kind = "open"
  /\ Cardinality(MembersOf(ev.before, conn[ev.ws].roomId)) = 2
  /\ SendsToWs(ev.sent, ev.ws) = 1
  /\ \A x \in ClientIds : notes[ev.ws][x] = <<>>

\* ---- C36 ----------------------------------------------------------------
\* C36: once the close handler has removed a session, its identifier is in
\* no room again, and a frame that names it as sender, from whatever
\* connection and after whatever joins and leaves, is written to nobody.
C36_NoFrameFromTornDownSender ==
  \A c \in Conns :
    (conn[c].st = "closed" /\ wire[c].first.type = "connected") =>
      /\ \A cl \in ClientsIn(rooms) : cl.id # IdOfWs(c)
      /\ (ev.kind = "message" /\ ev.msg.json /\ ev.msg.sender = IdOfWs(c)) =>
           ev.sent = <<>>

\* an offer naming a torn-down session as sender and a present member as
\* target, sent while two sessions are bound
C36_Witness ==
  \E c \in Conns :
    /\ conn[c].st = "closed"
    /\ ev.kind = "message"
    /\ ev.msg.type = "offer"
    /\ ev.msg.sender = IdOfWs(c)
    /\ \E cl \in ClientsIn(ev.before) : cl.id = ev.msg.target /\ cl.ws # ev.ws
    /\ Cardinality(ClientsIn(ev.before)) = 2

\* ---- C37 ----------------------------------------------------------------
\* the change events that end a burst: the last one so far, and each one
\* that the next event follows by SYNC_DEBOUNCE_MS or more
BurstEnds ==
  { i \in 1..Len(changes) :
      i = Len(changes) \/ changes[i + 1] - changes[i] >= SYNC_DEBOUNCE_MS }

\* C37: at most one sync timer is pending at any time; every call of
\* syncToInstances by a timer is made 500 ms after the last event of a burst,
\* and a burst whose last event is more than 500 ms old has caused exactly
\* one call (and no burst more than one).
C37_Debounced ==
  /\ Cardinality(timers) <= 1
  /\ \A k \in 1..Len(syncCalls) :
       \E i \in BurstEnds : syncCalls[k] = changes[i] + SYNC_DEBOUNCE_MS
  /\ \A i \in BurstEnds :
       LET n == Cardinality({ k \in 1..Len(syncCalls) :
                                syncCalls[k] = changes[i] + SYNC_DEBOUNCE_MS })
       IN /\ n <= 1
          /\ changes[i] + SYNC_DEBOUNCE_MS < now => n = 1

\* a burst of three events, each less than 500 ms after the one before, has
\* caused one call, 500 ms after the third
C37_Witness ==
  /\ Len(changes) = 3
  /\ changes[2] - changes[1] \in 1..(SYNC_DEBOUNCE_MS - 1)
  /\ changes[3] - changes[2] \in 1..(SYNC_DEBOUNCE_MS - 1)
  /\ syncCalls = << changes[3] + SYNC_DEBOUNCE_MS >>

\* ---- C38 ----------------------------------------------------------------
\* C38: the promise of an instance, once settled, keeps its result; and the
\* timeout path (kill and the Timeout result) is taken only for a process
\* that is still running when the timer fires.
C38_SettlesOnceTimeoutOnlyIfRunning ==
  [][\A i \in Instances :
       /\ syncProcess[i].result # "pending" =>
            syncProcess'[i].result = syncProcess[i].result
       /\ syncProcess'[i].timedOut # "exited"]_vars

\* the part of C38 that the code keeps: a settled promise keeps its result,
\* whichever of close, error and timeout call resolve afterwards
C38_SettlesOnce ==
  [][\A i \in Instances :
       syncProcess[i].result # "pending" =>
         syncProcess'[i].result = syncProcess[i].result]_vars

====
